---- MODULE Spec2Model ----
(***************************************************************************)
(* Relative-age-effect score adjustment (PSTennant/relative_age).          *)
(*                                                                         *)
(* src/app.py            the Shiny form and relative_age_adjustment_linear *)
(* src/scripts/rae_sbox.py  the comparison script: the linear function     *)
(*                       with its other argument order and                 *)
(*                       relative_age_adjustment_exp                       *)
(*                                                                         *)
(* Representation.                                                         *)
(*   date       its proleptic Gregorian ordinal (date.toordinal()), so     *)
(*              that date - date is the difference of the ordinals         *)
(*   number     a score, counted in quarters: 70 is 280, 70.5 is 282.      *)
(*              Quarters are exact binary fractions, so every score of     *)
(*              the model is exactly a Python float                        *)
(*   float      an IEEE-754 binary64 value [sign, mant, exp]: mant is the  *)
(*              53-bit significand, most significant bit first, and exp    *)
(*              the binary exponent of that first bit                      *)
(***************************************************************************)
EXTENDS Integers, Sequences, FiniteSets, TLC

\* An optional value (a cleared input, a handler that returned nothing) is
\* the empty tuple when absent and a one-element tuple when present.
None == << >>

Some(v) == <<v>>

Val(o) == o[1]

(***************************************************************************)
(* datetime.date: fromisoformat / toordinal, and date - date               *)
(***************************************************************************)
is_leap(y) == (y % 4 = 0) /\ ((y % 100 # 0) \/ (y % 400 = 0))

days_before_year(y) ==
    LET p == y - 1 IN p * 365 + (p \div 4) - (p \div 100) + (p \div 400)

days_before_month(y, m) ==
    <<0, 31, 59, 90, 120, 151, 181, 212, 243, 273, 304, 334>>[m]
        + (IF m > 2 /\ is_leap(y) THEN 1 ELSE 0)

\* date.fromisoformat("yyyy-mm-dd"), as the ordinal of the date
fromisoformat(y, m, d) == days_before_year(y) + days_before_month(y, m) + d

\* (a - b).days for two dates
days(a, b) == a - b

(***************************************************************************)
(* Python float arithmetic (IEEE-754 binary64, round to nearest even)      *)
(***************************************************************************)
DBL_MANT_DIG == 53

Zeros(n) == [i \in 1..n |-> 0]

FloatZero == [sign |-> 0, mant |-> Zeros(DBL_MANT_DIG), exp |-> 0]

Abs(x) == IF x < 0 THEN -x ELSE x

Sgn(x) == IF x < 0 THEN -1 ELSE IF x > 0 THEN 1 ELSE 0

RECURSIVE Pow2(_)
Pow2(n) == IF n = 0 THEN 1 ELSE 2 * Pow2(n - 1)

\* Bit strings are written most significant bit first.  Arithmetic on them
\* goes through limbs of 10 bits (base 1024), so that no intermediate
\* product leaves the 32-bit integers.

\* the bits of c >= 0 without leading zeros
RECURSIVE IntBits(_)
IntBits(c) == IF c = 0 THEN << >> ELSE Append(IntBits(c \div 2), c % 2)

\* the natural number the bits b[from..to] denote (at most 30 bits)
RECURSIVE BitsVal(_, _, _)
BitsVal(b, from, to) ==
    IF to < from THEN 0 ELSE 2 * BitsVal(b, from, to - 1) + b[to]

AnyOne(b, from) == \E i \in from..Len(b) : b[i] = 1

\* b without its leading zeros
Strip(b) ==
    IF ~AnyOne(b, 1) THEN << >>
    ELSE LET k == CHOOSE i \in 1..Len(b) : b[i] = 1 /\ \A j \in 1..(i - 1) : b[j] = 0
         IN  SubSeq(b, k, Len(b))

\* b + 1 on a bit string that is not all ones
IncBits(b) ==
    LET k == CHOOSE i \in 1..Len(b) : b[i] = 0 /\ \A j \in (i + 1)..Len(b) : b[j] = 1
    IN  [i \in 1..Len(b) |-> IF i < k THEN b[i] ELSE IF i = k THEN 1 ELSE 0]

\* a bit string as limbs (padded on the left), and limbs as a bit string
ToLimbs(b) ==
    LET n   == (Len(b) + 9) \div 10
        pad == Zeros(10 * n - Len(b)) \o b
    IN  [j \in 1..n |-> BitsVal(pad, 10 * (j - 1) + 1, 10 * j)]

ToBits(l) ==
    [i \in 1..(10 * Len(l)) |->
        (l[((i - 1) \div 10) + 1] \div Pow2(9 - ((i - 1) % 10))) % 2]

\* Round the exact value  sign * b1.b2 b3 ... * 2^e  (plus something below
\* the last bit when sticky; b1 = 1) to a float: nearest, ties to even.
RoundToFloat(sign, b, e, sticky) ==
    LET p == DBL_MANT_DIG
        L == Len(b)
    IN  IF L <= p
        THEN [sign |-> sign, mant |-> b \o Zeros(p - L), exp |-> e]
        ELSE LET head  == SubSeq(b, 1, p)
                 guard == b[p + 1]
                 rest  == sticky \/ AnyOne(b, p + 2)
                 up    == guard = 1 /\ (rest \/ head[p] = 1)
             IN  IF ~up THEN [sign |-> sign, mant |-> head, exp |-> e]
                 ELSE IF \A i \in 1..p : head[i] = 1
                 THEN [sign |-> sign, mant |-> <<1>> \o Zeros(p - 1), exp |-> e + 1]
                 ELSE [sign |-> sign, mant |-> IncBits(head), exp |-> e]

\* a, b > 0: <<a', b', e>> with a/b = (a'/b') * 2^e and b' <= a' < 2b'
RECURSIVE Normalise(_, _, _)
Normalise(a, b, e) ==
    IF a < b THEN Normalise(2 * a, b, e - 1)
    ELSE IF a >= 2 * b THEN Normalise(a, 2 * b, e + 1)
    ELSE <<a, b, e>>

\* n more quotient limbs of r/b (r < b < 2^21), and the remainder left
RECURSIVE DivLimbs(_, _, _, _)
DivLimbs(r, b, n, acc) ==
    IF n = 0 THEN [limbs |-> acc, rem |-> r]
    ELSE DivLimbs((r * 1024) % b, b, n - 1, Append(acc, (r * 1024) \div b))

\* int / int (true division), b # 0: the correctly rounded quotient
TrueDiv(a, b) ==
    IF a = 0 THEN FloatZero
    ELSE LET nrm == Normalise(Abs(a), Abs(b), 0)
             q   == DivLimbs(nrm[1] - nrm[2], nrm[2], 6, << >>)
         IN  RoundToFloat(Sgn(a) * Sgn(b), <<1>> \o ToBits(q.limbs), nrm[3],
                          q.rem # 0)

\* the limbs l times the natural number n, 1 <= n < 2^21
RECURSIVE MulLimbs(_, _, _, _, _)
MulLimbs(l, n, i, carry, acc) ==
    IF i = 0 THEN [carry |-> carry, limbs |-> acc]
    ELSE LET t == l[i] * n + carry
         IN  MulLimbs(l, n, i - 1, t \div 1024, <<t % 1024>> \o acc)

\* number * float, the number given in quarters (exactly a float itself)
MulNumFloat(q, f) ==
    IF q = 0 \/ f.sign = 0 THEN FloatZero
    ELSE LET l    == ToLimbs(f.mant)
             m    == MulLimbs(l, Abs(q), Len(l), 0, << >>)
             prod == Strip(IntBits(m.carry) \o ToBits(m.limbs))
         IN  RoundToFloat(Sgn(q) * f.sign, prod,
                          f.exp - (DBL_MANT_DIG - 1) - 2 + (Len(prod) - 1), FALSE)

\* int(x) in place of round(x): the fraction dropped
PyTrunc(f) ==
    IF f.sign = 0 \/ f.exp < 0 THEN 0
    ELSE f.sign * BitsVal(f.mant, 1, f.exp + 1)

\* round(x) of a float, one argument: the nearest int, ties to even
\* (|x| < 2^30)
PyRound(f) ==
    IF f.sign = 0 \/ f.exp < -1 THEN 0
    ELSE IF f.exp = -1
    THEN (IF AnyOne(f.mant, 2) THEN f.sign ELSE 0)
    ELSE LET k    == f.exp + 1
             ip   == BitsVal(f.mant, 1, k)
             half == IF k + 1 <= DBL_MANT_DIG THEN f.mant[k + 1] ELSE 0
             rest == AnyOne(f.mant, k + 2)
         IN  f.sign * (IF half = 1 /\ (rest \/ ip % 2 = 1) THEN ip + 1 ELSE ip)

\* limbs of equal length: a + b, and a - b (a >= b)
RECURSIVE AddLimbs(_, _, _, _, _)
AddLimbs(a, b, i, carry, acc) ==
    IF i = 0 THEN <<carry>> \o acc
    ELSE LET t == a[i] + b[i] + carry
         IN  AddLimbs(a, b, i - 1, t \div 1024, <<t % 1024>> \o acc)

RECURSIVE SubLimbs(_, _, _, _, _)
SubLimbs(a, b, i, borrow, acc) ==
    IF i = 0 THEN acc
    ELSE LET t == a[i] - b[i] - borrow
         IN  SubLimbs(a, b, i - 1, IF t < 0 THEN 1 ELSE 0,
                      <<(t + 1024) % 1024>> \o acc)

\* bit strings of equal length: a < b
LessBits(a, b) ==
    \E i \in 1..Len(a) : a[i] < b[i] /\ \A j \in 1..(i - 1) : a[j] = b[j]

\* float - 1 (the float below 2^52 in magnitude)
FloatSubOne(f) ==
    LET p == DBL_MANT_DIG IN
    IF f.sign = 0 THEN [sign |-> -1, mant |-> <<1>> \o Zeros(p - 1), exp |-> 0]
    ELSE LET n    == IF f.exp >= 0 THEN p ELSE p - f.exp
             x    == Zeros(n - p) \o f.mant
             one  == Zeros(n - (p - f.exp)) \o <<1>> \o Zeros(p - 1 - f.exp)
             lx   == ToLimbs(x)
             l1   == ToLimbs(one)
             k    == Len(lx)
             sign == IF f.sign < 0 \/ LessBits(x, one) THEN -1
                     ELSE IF \A i \in 1..n : x[i] = one[i] THEN 0 ELSE 1
             bits == IF f.sign < 0 THEN Strip(ToBits(AddLimbs(lx, l1, k, 0, << >>)))
                     ELSE IF LessBits(x, one)
                     THEN Strip(ToBits(SubLimbs(l1, lx, k, 0, << >>)))
                     ELSE Strip(ToBits(SubLimbs(lx, l1, k, 0, << >>)))
         IN  IF sign = 0 THEN FloatZero
             ELSE RoundToFloat(sign, bits, f.exp - (p - 1) + Len(bits) - 1, FALSE)

\* f"{x:.0f}": the sign and the digits of x rounded to no decimals
FormatF0(f) == [minus |-> f.sign < 0, digits |-> Abs(PyRound(f))]

(***************************************************************************)
(* Numbers (scores), in quarters                                           *)
(***************************************************************************)
\* the whole number n as a number
Q(n) == 4 * n

IsWhole(x) == x % 4 = 0

(***************************************************************************)
(* app.py: relative_age_adjustment_linear                                  *)
(***************************************************************************)
Returned(v) == [kind |-> "value", value |-> Some(v)]

Raised(e) == [kind |-> e, value |-> None]

\* the ratio turned over: the child's age over the oldest child's
uncapped_score_inverted(test_date, child_bday, oldest_in_cohort, child_test_score) ==
    LET oldest_delta     == days(test_date, oldest_in_cohort)
        child_delta      == days(test_date, child_bday)
        inflation_factor == IF oldest_delta = 0 THEN FloatZero
                            ELSE TrueDiv(child_delta, oldest_delta)
    IN  PyRound(MulNumFloat(child_test_score, inflation_factor))

\* the age gap in place of the oldest child's age
uncapped_score_gap(test_date, child_bday, oldest_in_cohort, child_test_score) ==
    LET oldest_delta     == days(child_bday, oldest_in_cohort)
        child_delta      == days(test_date, child_bday)
        inflation_factor == TrueDiv(oldest_delta, child_delta)
    IN  PyRound(MulNumFloat(child_test_score, inflation_factor))

\* round(child_test_score * inflation_factor), the score before the cap
\* (child_bday # test_date)
uncapped_score(test_date, child_bday, oldest_in_cohort, child_test_score) ==
    LET oldest_delta     == days(test_date, oldest_in_cohort)
        child_delta      == days(test_date, child_bday)
        inflation_factor == TrueDiv(oldest_delta, child_delta)
    IN  PyRound(MulNumFloat(child_test_score, inflation_factor))

\* the cap left out
relative_age_adjustment_linear_nocap(test_date, child_bday, oldest_in_cohort, child_test_score, max_test_score) ==
    IF days(test_date, child_bday) = 0 THEN Raised("ZeroDivisionError")
    ELSE Returned(Q(uncapped_score(test_date, child_bday, oldest_in_cohort,
                                   child_test_score)))

\* a floor at 0 added to the cap
relative_age_adjustment_linear_floor(test_date, child_bday, oldest_in_cohort, child_test_score, max_test_score) ==
    IF days(test_date, child_bday) = 0 THEN Raised("ZeroDivisionError")
    ELSE LET adjusted_score == uncapped_score(test_date, child_bday,
                                              oldest_in_cohort, child_test_score)
         IN  IF Q(adjusted_score) > max_test_score
             THEN Returned(max_test_score)
             ELSE IF adjusted_score < 0 THEN Returned(0)
             ELSE Returned(Q(adjusted_score))

\* a zero age taken as an unbounded factor: the cap is returned
relative_age_adjustment_linear_inf(test_date, child_bday, oldest_in_cohort, child_test_score, max_test_score) ==
    IF days(test_date, child_bday) = 0 THEN Returned(max_test_score)
    ELSE LET adjusted_score == uncapped_score(test_date, child_bday,
                                   oldest_in_cohort, child_test_score)
         IN  IF Q(adjusted_score) > max_test_score
             THEN Returned(max_test_score)
             ELSE Returned(Q(adjusted_score))

relative_age_adjustment_linear(test_date, child_bday, oldest_in_cohort, child_test_score, max_test_score) ==
    LET child_delta == days(test_date, child_bday)
    IN  IF child_delta = 0 THEN Raised("ZeroDivisionError")
        ELSE LET adjusted_score == uncapped_score(test_date, child_bday,
                                       oldest_in_cohort, child_test_score)
             IN  IF Q(adjusted_score) > max_test_score
                 THEN Returned(max_test_score)
                 ELSE Returned(Q(adjusted_score))

(***************************************************************************)
(* rae_sbox.py: relative_age_adjustment_exp                                *)
(*                                                                         *)
(* math.exp is a library function: its value is enclosed, not computed.    *)
(* A real number is enclosed by two integers counting units of             *)
(* 1/Resolution; every enclosure is widened by a unit, far more than the   *)
(* rounding error of the floats, so that it holds the float the code       *)
(* computes.  The function then returns one of the integers some value of  *)
(* the last enclosure rounds to: more than one when the enclosure holds a  *)
(* tie.                                                                    *)
(***************************************************************************)
Resolution == 5000

CeilDiv(p, q) == (p + q - 1) \div q

\* the i-th term f^i / i! of the series of e^-f, 0 <= f <= 1, rounded up
\* (up = TRUE) or down
RECURSIVE TaylorTerm(_, _, _)
TaylorTerm(i, f, up) ==
    IF i = 0 THEN Resolution
    ELSE LET prev == TaylorTerm(i - 1, f, up)
         IN  IF up THEN CeilDiv(prev * f, i * Resolution)
             ELSE (prev * f) \div (i * Resolution)

\* the partial sum to the n-th term with the positive terms rounded as
\* `up` says and the negative ones the other way
RECURSIVE TaylorSum(_, _, _)
TaylorSum(n, f, up) ==
    IF n < 0 THEN 0
    ELSE TaylorSum(n - 1, f, up)
            + (IF n % 2 = 0 THEN TaylorTerm(n, f, up) ELSE -TaylorTerm(n, f, ~up))

\* bounds of e^-f for 0 <= f <= 1: the partial sums alternate about it
ExpFracHi(f) == TaylorSum(10, f, TRUE)

ExpFracLo(f) == TaylorSum(11, f, FALSE)

\* bounds of 1/e
ExpOneHi == ExpFracHi(Resolution)

ExpOneLo == ExpFracLo(Resolution)

\* bounds of e^-n for a natural number n
RECURSIVE ExpIntHi(_)
ExpIntHi(n) ==
    IF n = 0 THEN Resolution
    ELSE CeilDiv(ExpIntHi(n - 1) * ExpOneHi, Resolution)

RECURSIVE ExpIntLo(_)
ExpIntLo(n) ==
    IF n = 0 THEN Resolution
    ELSE (ExpIntLo(n - 1) * ExpOneLo) \div Resolution

Clamp(x) == IF x < 0 THEN 0 ELSE IF x > Resolution THEN Resolution ELSE x

\* math.exp(-t) for t within [lo, hi], 0 <= lo <= hi: its bounds.  e^-40
\* is below the resolution whatever it is, so t is cut off there.
ExpNeg(lo, hi) ==
    LET cut == 40 * Resolution
        l   == IF lo > cut THEN cut ELSE lo
        h   == IF hi > cut THEN cut ELSE hi
    IN  [lo |-> Clamp(((ExpIntLo(h \div Resolution) * ExpFracLo(h % Resolution))
                            \div Resolution) - 1),
         hi |-> Clamp(CeilDiv(ExpIntHi(l \div Resolution) * ExpFracHi(l % Resolution),
                              Resolution) + 1)]

\* relative_age = (test_date - child_bday)/(test_date - oldest_in_cohort),
\* then -k * (relative_age - 0.5): its sign and the bounds of its magnitude.
\* k is given in tenths.
logistic_exponent(child_days, oldest_days, k) ==
    LET num == k * (oldest_days - 2 * child_days) * Sgn(oldest_days)
        den == 20 * Abs(oldest_days)
        lo  == (Abs(num) * Resolution) \div den
        hi  == CeilDiv(Abs(num) * Resolution, den)
    IN  [sign |-> Sgn(num), lo |-> IF lo > 0 THEN lo - 1 ELSE 0, hi |-> hi + 1]

\* -a * (child_test_score / adjustment_factor) / max_test_score, negated:
\* a * score * (1 + exp(y)) / max, with y the logistic exponent.  An upper
\* bound of 40 or more is cut off at 40.
saturation_exponent(y, a, score, max) ==
    LET cut == 40 * Resolution
        w   == ExpNeg(y.lo, y.hi)                      \* e^-|y|
        u   == [lo |-> (a * score * Resolution) \div max,
                hi |-> CeilDiv(a * score * Resolution, max)]
        Cut(x) == IF x > cut THEN cut ELSE x
        \* u / w
        over == [lo |-> (Cut(u.lo) * Resolution) \div w.hi,
                 hi |-> IF w.lo = 0 THEN cut
                        ELSE CeilDiv(Cut(u.hi) * Resolution, w.lo)]
        \* u * w
        times == [lo |-> (Cut(u.lo) * w.lo) \div Resolution,
                  hi |-> CeilDiv(Cut(u.hi) * w.hi, Resolution)]
        e   == IF y.sign > 0 /\ y.lo > 0 THEN over
               ELSE IF y.sign < 0 /\ y.lo > 0 THEN times
               ELSE [lo |-> IF times.lo < over.lo THEN times.lo ELSE over.lo,
                     hi |-> IF times.hi > over.hi THEN times.hi ELSE over.hi]
    IN  IF score = 0 THEN [lo |-> 0, hi |-> 0]
        ELSE [lo |-> Cut(IF u.lo + e.lo > 0 THEN u.lo + e.lo - 1 ELSE 0),
              hi |-> Cut(u.hi + e.hi + 1)]

\* the integers some value v of lo <= v <= hi (in units of 1/den) rounds
\* to; of lo <= v < hi when open
RoundsTo(lo, hi, den, open) ==
    { r \in ((2 * lo - den) \div (2 * den))..((2 * hi + den) \div (2 * den)) :
        /\ 2 * den * r + den >= 2 * lo
        /\ IF open THEN 2 * den * r - den < 2 * hi
                   ELSE 2 * den * r - den <= 2 * hi }

\* lines 90-91 for a maximum other than 0: the rounded saturated scores
saturated_scores(y, child_test_score, max_test_score, a) ==
    LET x == saturation_exponent(y, a, child_test_score, max_test_score)
        E == IF child_test_score = 0
             THEN [lo |-> Resolution, hi |-> Resolution]
             ELSE ExpNeg(x.lo, x.hi)
        \* e^-38 < 2^-54: 1 - exp(...) is then the float 1.0; above
        \* e^-37 it is a float below 1.0, and the product below max
        one  == x.lo >= 38 * Resolution
        open == x.hi < 37 * Resolution /\ E.lo = 0
        lo  == IF one THEN max_test_score * Resolution
               ELSE max_test_score * (Resolution - E.hi)
        hi  == IF one THEN max_test_score * Resolution
               ELSE max_test_score * (Resolution - E.lo)
        exact == one \/ child_test_score = 0
        half  == 2 * Resolution
    IN  IF exact
        THEN \* round() of a number known exactly: ties to even
             LET fl == lo \div (4 * Resolution)
                 fr == lo % (4 * Resolution)
             IN  {Returned(Q(IF fr > half \/ (fr = half /\ fl % 2 = 1)
                             THEN fl + 1 ELSE fl))}
        ELSE {Returned(Q(r)) : r \in RoundsTo(lo, hi, 4 * Resolution, open)}

\* math.exp(t) raises OverflowError when e^t is beyond the floats, which is
\* for t above 709.78...: surely not up to 709.78, surely from 709.79 on
ExpSafeHi == (70978 * Resolution) \div 100

ExpOverflowLo == CeilDiv(70979 * Resolution, 100)

\* a division by the maximum that gives a number whatever the maximum
divided_by_max_unchecked(max_test_score, scores) ==
    IF max_test_score = 0 THEN {Returned(0)} ELSE scores

\* ... / max_test_score at line 90: the division fails when the maximum is 0
divided_by_max(max_test_score, scores) ==
    IF max_test_score = 0 THEN {Raised("ZeroDivisionError")} ELSE scores

\* the results the function can give: a set of returned values, or the
\* exception it raises.  The scores are >= 0, a > 0 is a whole number and k
\* is given in tenths.  Line 86 divides by the oldest child's age, line 88
\* takes math.exp of the logistic exponent, line 90 divides by the maximum.
relative_age_adjustment_exp(test_date, child_test_score, max_test_score, child_bday, oldest_in_cohort, k, a) ==
    IF days(test_date, oldest_in_cohort) = 0
    THEN {Raised("ZeroDivisionError")}
    ELSE LET y == logistic_exponent(days(test_date, child_bday),
                                    days(test_date, oldest_in_cohort), k)
         IN  IF y.sign > 0 /\ y.lo >= ExpOverflowLo
             THEN {Raised("OverflowError")}
             ELSE (IF y.sign > 0 /\ y.hi > ExpSafeHi
                   THEN {Raised("OverflowError")} ELSE {})
                  \cup divided_by_max(max_test_score,
                         saturated_scores(y, child_test_score, max_test_score, a))

(***************************************************************************)
(* app.py: the form.  The inputs a user can give are bounded here.         *)
(***************************************************************************)
\* date.today() when the app starts
Today == fromisoformat(2024, 1, 15)

MaxRecentDays == 1

MaxSmallScore == 2

\* the dates of the date pickers: the defaults (today, 730 and 1000 days
\* before), the dates of the comparison script, a day 350 days before
\* today (350/1000 is not a float: 90 * (350/1000) falls below 31.5), and
\* the days just before today
Dates ==
    {Today, Today - 730, Today - 1000, Today - 350,
     fromisoformat(2021, 7, 18), fromisoformat(2020, 9, 1)}
        \cup {Today - i : i \in 1..MaxRecentDays}

\* the numbers of the numeric inputs: 0, 0.25, 0.5, ..., and 70, 90, 100
Scores == (0..MaxSmallScore) \cup {Q(70), Q(90), Q(100)}

Names == {"", "Sam"}

Optional(S) == {Some(v) : v \in S} \cup {None}

VARIABLES
    input,    \* the reactive inputs of the form
    output,   \* what each renderer of the Results panel last returned
    call,     \* rae_sbox.py: the arguments of a call of a function, if any
    result,   \* rae_sbox.py: what the call returned or raised, once it has
    script    \* rae_sbox.py: the statement to run next, the loop variables
              \* and the global child_bday, when the script is run

vars == <<input, output, call, result, script>>

Required == {"test_date", "child_bday", "oldest_bday", "child_score", "max_score"}

Rendered(kind, name, value, arith, calls) ==
    [kind |-> kind, name |-> name, value |-> value, arith |-> arith,
     calls |-> calls]

\* every call the form can make, computed once
linear_of ==
    [t \in Dates, c \in Dates, o \in Dates, s \in Scores, m \in Scores |->
        relative_age_adjustment_linear(t, c, o, s, m)]

\* (age_ratio - 1) * 100, formatted with no decimals
percent_older(oldest_days, child_days) ==
    FormatF0(MulNumFloat(Q(100), FloatSubOne(TrueDiv(oldest_days, child_days))))

percent_of ==
    [t \in Dates, c \in Dates, o \in Dates |->
        IF t = c THEN None ELSE Some(percent_older(days(t, o), days(t, c)))]

\* @render.text age_comparison_val
age_comparison_val(in) ==
    IF in.test_date = None \/ in.child_bday = None \/ in.oldest_bday = None
    THEN Rendered("TypeError", in.child_name, None, TRUE, 0)
    ELSE IF days(Val(in.test_date), Val(in.child_bday)) = 0
    THEN Rendered("ZeroDivisionError", in.child_name, None, TRUE, 0)
    ELSE Rendered("percent", in.child_name,
                  percent_of[Val(in.test_date), Val(in.child_bday),
                             Val(in.oldest_bday)], TRUE, 0)

\* @render.text adjusted_score_val
adjusted_score_val(in) ==
    IF \E f \in Required : in[f] = None
    THEN Rendered("prompt", in.child_name, None, FALSE, 0)
    ELSE LET r == linear_of[Val(in.test_date), Val(in.child_bday),
                            Val(in.oldest_bday), Val(in.child_score),
                            Val(in.max_score)]
         IN  IF r.kind = "value"
             THEN Rendered("score", in.child_name, r.value, TRUE, 1)
             ELSE Rendered(r.kind, in.child_name, None, TRUE, 1)

\* @render.plot my_plot: the two bars and the upper limit of the y axis
my_plot(in) ==
    IF \E f \in Required : in[f] = None
    THEN Rendered("nothing", "", None, FALSE, 0)
    ELSE LET r == linear_of[Val(in.test_date), Val(in.child_bday),
                            Val(in.oldest_bday), Val(in.child_score),
                            Val(in.max_score)]
         IN  IF r.kind = "value"
             THEN Rendered("plot", "",
                           Some([adjustment |-> Val(r.value) - Val(in.child_score),
                                 original   |-> Val(in.child_score),
                                 ylim       |-> Val(in.max_score)]), TRUE, 1)
             ELSE Rendered(r.kind, "", None, TRUE, 1)

\* the reactive flush: every renderer of the Results panel runs again
Render(in) ==
    [age_comparison_val |-> age_comparison_val(in),
     adjusted_score_val |-> adjusted_score_val(in),
     my_plot            |-> my_plot(in)]

Init ==
    /\ input = [child_name  |-> "",
                test_date   |-> Some(Today),
                child_bday  |-> Some(Today - 730),
                oldest_bday |-> Some(Today - 1000),
                child_score |-> None,
                max_score   |-> None]
    /\ output = Render(input)
    /\ call = None
    /\ result = None
    /\ script = None

Set(field, v) ==
    /\ input' = [input EXCEPT ![field] = v]
    /\ output' = Render(input')
    /\ UNCHANGED <<call, result, script>>

SetChildName == \E n \in Names : Set("child_name", n)

SetTestDate == \E d \in Optional(Dates) : Set("test_date", d)

SetChildBday == \E d \in Optional(Dates) : Set("child_bday", d)

SetOldestBday == \E d \in Optional(Dates) : Set("oldest_bday", d)

SetChildScore == \E x \in Optional(Scores) : Set("child_score", x)

SetMaxScore == \E x \in Optional(Scores) : Set("max_score", x)

Next ==
    \/ SetChildName
    \/ SetTestDate
    \/ SetChildBday
    \/ SetOldestBday
    \/ SetChildScore
    \/ SetMaxScore

Spec == Init /\ [][Next]_vars

(***************************************************************************)
(* rae_sbox.py: relative_age_adjustment_exp applied to bounded arguments   *)
(***************************************************************************)
\* the dates of the script: the oldest child's and the child's birthday,
\* two test days and the eve of one
ExpDates ==
    {fromisoformat(2020, 9, 1), fromisoformat(2021, 7, 18),
     fromisoformat(2022, 12, 31), fromisoformat(2023, 1, 1),
     fromisoformat(2024, 1, 15)}

\* scores 0, 0.75, 1, 70, 100; maximal scores 0, 0.75, 1, 100
ExpScores == {0, 3, Q(1), Q(70), Q(100)}

ExpMaxScores == {0, 3, Q(1), Q(100)}

\* k in tenths (0.1, the default 1, 5) and a (1, the default 2)
ExpK == {1, 10, 50}

ExpA == {1, 2}

ExpCalls ==
    [test_date : ExpDates, child_test_score : ExpScores,
     max_test_score : ExpMaxScores, child_bday : ExpDates,
     oldest_in_cohort : ExpDates, k : ExpK, a : ExpA]

InitExp ==
    /\ input = [child_name  |-> "",
                test_date   |-> Some(Today),
                child_bday  |-> Some(Today - 730),
                oldest_bday |-> Some(Today - 1000),
                child_score |-> None,
                max_score   |-> None]
    /\ output = Render(input)
    /\ call \in {Some(c) : c \in ExpCalls}
    /\ result = None
    /\ script = None

CallExp ==
    /\ call # None
    /\ result = None
    /\ \E r \in relative_age_adjustment_exp(Val(call).test_date,
                  Val(call).child_test_score, Val(call).max_test_score,
                  Val(call).child_bday, Val(call).oldest_in_cohort,
                  Val(call).k, Val(call).a) :
          result' = Some(r)
    /\ UNCHANGED <<input, output, call, script>>

NextExp == CallExp

SpecExp == InitExp /\ [][NextExp]_vars

(***************************************************************************)
(* rae_sbox.py: the script run statement by statement.  A statement      *)
(* binds the arguments of a call; the body of the function then runs and   *)
(* returns or raises.  A statement that raises is abandoned (a loop with   *)
(* the rest of its iterations) and the next statement is run, as in an     *)
(* interactive session; run as a program the script ends at the first      *)
(* statement that raises.  call holds the call being made or made last,    *)
(* result what it gave (None while the body has not run).                  *)
(***************************************************************************)
\* a value with its type: a datetime.date (its ordinal) or a number
Date(d) == [type |-> "date", v |-> d]

Number(n) == [type |-> "number", v |-> n]

\* the parameters of the two functions of the script, and the defaults of
\* k (in tenths) and a
LinearParams ==
    <<"test_date", "child_test_score", "max_test_score", "child_bday",
      "oldest_in_cohort">>

ExpParams == LinearParams \o <<"k", "a">>

NoDefaults == << >>

ExpDefaults == [k |-> Number(10), a |-> Number(2)]

\* the binding of the arguments of a call to the parameters: None when the
\* call raises TypeError for it (too many positional arguments, an unknown
\* keyword, two values for a parameter, a parameter left without a value)
Bind(params, defaults, positional, keywords) ==
    LET n     == Len(positional)
        names == {params[j] : j \in 1..Len(params)}
    IN  IF n > Len(params) THEN None
        ELSE IF \E w \in DOMAIN keywords : w \notin names THEN None
        ELSE IF \E j \in 1..n : params[j] \in DOMAIN keywords THEN None
        ELSE IF \E j \in (n + 1)..Len(params) :
                    /\ params[j] \notin DOMAIN keywords
                    /\ params[j] \notin DOMAIN defaults
             THEN None
        ELSE Some([w \in names |->
                    IF \E j \in 1..n : params[j] = w
                    THEN positional[CHOOSE j \in 1..n : params[j] = w]
                    ELSE IF w \in DOMAIN keywords THEN keywords[w]
                    ELSE defaults[w]])

\* the body of relative_age_adjustment_linear (lines 56-63) on bound
\* arguments: date - number raises TypeError, a number has no .days, the
\* division is next, then date * float and int > date raise TypeError
linear_call(b) ==
    LET t == b["test_date"]
        c == b["child_bday"]
        o == b["oldest_in_cohort"]
        x == b["child_test_score"]
        m == b["max_test_score"]
    IN  IF t.type # o.type \/ t.type # c.type THEN {Raised("TypeError")}
        ELSE IF t.type # "date" THEN {Raised("AttributeError")}
        ELSE IF days(t.v, c.v) = 0 THEN {Raised("ZeroDivisionError")}
        ELSE IF x.type # "number" \/ m.type # "number"
             THEN {Raised("TypeError")}
        ELSE {relative_age_adjustment_linear(t.v, c.v, o.v, x.v, m.v)}

\* the globals of the script that are never bound again (lines 14-17)
sbox_oldest_in_cohort == Date(fromisoformat(2020, 9, 1))

sbox_test_date == Date(fromisoformat(2024, 1, 15))

sbox_child_test_score == Number(Q(70))

sbox_max_test_score == Number(Q(100))

\* range(100)
RangeStop == 100

\* the lists of the last loop; k in tenths
bdays ==
    <<fromisoformat(2020, 9, 1), fromisoformat(2020, 12, 31),
      fromisoformat(2021, 3, 31), fromisoformat(2021, 7, 18),
      fromisoformat(2021, 8, 30)>>

testdays ==
    <<fromisoformat(2023, 1, 1), fromisoformat(2024, 1, 1),
      fromisoformat(2025, 1, 1), fromisoformat(2026, 1, 1),
      fromisoformat(2027, 1, 1)>>

ks == <<1, 10, 20, 30, 50>>

\* what lines 86 and 88 of relative_age_adjustment_exp can raise, and
\* "passed" when line 90 can be reached
before_line_90(test_date, child_bday, oldest_in_cohort, k) ==
    IF days(test_date, oldest_in_cohort) = 0 THEN {"ZeroDivisionError"}
    ELSE LET y == logistic_exponent(days(test_date, child_bday),
                                    days(test_date, oldest_in_cohort), k)
         IN  IF y.sign > 0 /\ y.lo >= ExpOverflowLo THEN {"OverflowError"}
             ELSE IF y.sign > 0 /\ y.hi > ExpSafeHi
                  THEN {"OverflowError", "passed"}
             ELSE {"passed"}

\* the body of relative_age_adjustment_exp (lines 86-91) on bound
\* arguments: date - number raises TypeError; lines 86 and 88 come before
\* the scores are used at line 90, where a date among them raises TypeError
exp_call(b) ==
    LET t == b["test_date"]
        c == b["child_bday"]
        o == b["oldest_in_cohort"]
        x == b["child_test_score"]
        m == b["max_test_score"]
    IN  IF t.type # o.type \/ t.type # c.type THEN {Raised("TypeError")}
        ELSE IF x.type # "number" \/ m.type # "number"
             THEN {Raised(IF e = "passed" THEN "TypeError" ELSE e) :
                     e \in before_line_90(t.v, c.v, o.v, b["k"].v)}
        ELSE relative_age_adjustment_exp(t.v, x.v, m.v, c.v, o.v,
                                         b["k"].v, b["a"].v)

\* a call of the script: where it is, the function, the bound arguments
MakeCall(line, func, positional, keywords) ==
    [line |-> line, func |-> func,
     bound |-> IF func = "relative_age_adjustment_linear"
               THEN Bind(LinearParams, NoDefaults, positional, keywords)
               ELSE Bind(ExpParams, ExpDefaults, positional, keywords)]

\* what the call gives
Outcomes(c) ==
    IF c.bound = None THEN {Raised("TypeError")}
    ELSE IF c.func = "relative_age_adjustment_linear"
         THEN linear_call(Val(c.bound))
    ELSE exp_call(Val(c.bound))

InitSbox ==
    /\ input = [child_name  |-> "",
                test_date   |-> Some(Today),
                child_bday  |-> Some(Today - 730),
                oldest_bday |-> Some(Today - 1000),
                child_score |-> None,
                max_score   |-> None]
    /\ output = Render(input)
    /\ call = None
    /\ result = None
    /\ script = [line |-> 65, arg |-> 1, i |-> 0, k |-> 1, testday |-> 1,
                 bday |-> 1, child_bday |-> Date(fromisoformat(2021, 7, 18))]

\* no call is being made
Idle == call = None \/ result # None

\* the statement binds the arguments of the call c, and the body is to run
Issue(c) ==
    /\ Idle
    /\ call' = Some(c)
    /\ result' = None
    /\ UNCHANGED <<input, output, script>>

Stmt65 ==
    /\ script.line = 65
    /\ Issue(MakeCall(65, "relative_age_adjustment_linear",
                      <<sbox_test_date, sbox_child_test_score,
                        sbox_max_test_score, script.child_bday,
                        sbox_oldest_in_cohort>>, << >>))

Stmt94 ==
    /\ script.line = 94
    /\ Issue(MakeCall(94, "relative_age_adjustment_exp",
                      <<sbox_child_test_score, sbox_max_test_score,
                        script.child_bday, sbox_oldest_in_cohort>>, << >>))

Stmt128 ==
    /\ script.line = 128
    /\ Issue(MakeCall(128, "relative_age_adjustment_linear", << >>,
                      [test_date        |-> Date(fromisoformat(2024, 1, 15)),
                       child_bday       |-> Date(fromisoformat(2022, 9, 15)),
                       child_test_score |-> Number(Q(55)),
                       max_test_score   |-> Number(Q(100)),
                       oldest_in_cohort |-> Date(fromisoformat(2022, 9, 1))]))

Stmt130 ==
    /\ script.line = 130
    /\ Issue(MakeCall(130, "relative_age_adjustment_linear", << >>,
                      [test_date        |-> Date(fromisoformat(2024, 1, 15)),
                       child_bday       |-> Date(fromisoformat(2021, 8, 30)),
                       child_test_score |-> Number(Q(55)),
                       max_test_score   |-> Number(Q(100)),
                       oldest_in_cohort |-> Date(fromisoformat(2020, 9, 1))]))

\* for i in range(100): print(i, exp(...), linear(...)): the arguments of
\* print are evaluated from the left, the call of line 137 is made when
\* that of line 136 has returned
Stmt134 ==
    /\ script.line = 134
    /\ Issue(IF script.arg = 1
             THEN MakeCall(136, "relative_age_adjustment_exp",
                           <<Number(Q(script.i)), sbox_max_test_score,
                             script.child_bday, sbox_oldest_in_cohort>>, << >>)
             ELSE MakeCall(137, "relative_age_adjustment_linear",
                           <<Number(Q(script.i)), sbox_max_test_score,
                             script.child_bday, sbox_oldest_in_cohort>>, << >>))

\* comp_list = [exp(...) for i in range(100)]
Stmt144 ==
    /\ script.line = 144
    /\ Issue(MakeCall(144, "relative_age_adjustment_exp",
                      <<Number(Q(script.i)), sbox_max_test_score,
                        script.child_bday, sbox_oldest_in_cohort>>, << >>))

\* lin_list = [linear(...) for i in range(100)] in the loops of lines
\* 169-171
Stmt172 ==
    /\ script.line = 172
    /\ Issue(MakeCall(172, "relative_age_adjustment_linear", << >>,
                      [child_test_score |-> Number(Q(script.i)),
                       test_date        |-> Date(testdays[script.testday]),
                       max_test_score   |-> sbox_max_test_score,
                       child_bday       |-> script.child_bday,
                       oldest_in_cohort |-> sbox_oldest_in_cohort]))

\* exp_list = [exp(..., k = k) for i in range(100)]
Stmt173 ==
    /\ script.line = 173
    /\ Issue(MakeCall(173, "relative_age_adjustment_exp", << >>,
                      [child_test_score |-> Number(Q(script.i)),
                       test_date        |-> Date(testdays[script.testday]),
                       max_test_score   |-> sbox_max_test_score,
                       child_bday       |-> script.child_bday,
                       oldest_in_cohort |-> sbox_oldest_in_cohort,
                       k                |-> Number(ks[script.k])]))

\* the loops of lines 169-171 are entered: they bind k, testday and
\* child_bday, a global of the script
EnterLoops(sc) ==
    [sc EXCEPT !.line = 172, !.arg = 1, !.i = 0, !.k = 1, !.testday = 1,
               !.bday = 1, !.child_bday = Date(bdays[1])]

\* the next iteration of the loops of lines 169-171, or the statement
\* after them (line 180)
NextIteration(sc) ==
    IF sc.bday < Len(bdays)
    THEN [sc EXCEPT !.line = 172, !.i = 0, !.bday = @ + 1,
                    !.child_bday = Date(bdays[sc.bday + 1])]
    ELSE IF sc.testday < Len(testdays)
    THEN [sc EXCEPT !.line = 172, !.i = 0, !.bday = 1, !.testday = @ + 1,
                    !.child_bday = Date(bdays[1])]
    ELSE IF sc.k < Len(ks)
    THEN [sc EXCEPT !.line = 172, !.i = 0, !.bday = 1, !.testday = 1,
                    !.k = @ + 1, !.child_bday = Date(bdays[1])]
    ELSE [sc EXCEPT !.line = 180, !.i = 0]

\* the next element of range(100), or `done` after the last
NextElement(sc, done) ==
    IF sc.i + 1 < RangeStop THEN [sc EXCEPT !.i = @ + 1, !.arg = 1] ELSE done

\* where the script goes on when the call of its statement has returned
Returns(sc) ==
    CASE sc.line = 65  -> [sc EXCEPT !.line = 94]
      [] sc.line = 94  -> [sc EXCEPT !.line = 128]
      [] sc.line = 128 -> [sc EXCEPT !.line = 130]
      [] sc.line = 130 -> [sc EXCEPT !.line = 134, !.arg = 1, !.i = 0]
      [] sc.line = 134 ->
            IF sc.arg = 1 THEN [sc EXCEPT !.arg = 2]
            ELSE NextElement(sc, [sc EXCEPT !.line = 144, !.arg = 1, !.i = 0])
      [] sc.line = 144 -> NextElement(sc, EnterLoops(sc))
      [] sc.line = 172 -> NextElement(sc, [sc EXCEPT !.line = 173, !.i = 0])
      [] sc.line = 173 -> NextElement(sc, NextIteration(sc))

\* where it goes on when the call has raised: at the next statement
Raises(sc) ==
    CASE sc.line = 65  -> [sc EXCEPT !.line = 94]
      [] sc.line = 94  -> [sc EXCEPT !.line = 128]
      [] sc.line = 128 -> [sc EXCEPT !.line = 130]
      [] sc.line = 130 -> [sc EXCEPT !.line = 134, !.arg = 1, !.i = 0]
      [] sc.line = 134 -> [sc EXCEPT !.line = 144, !.arg = 1, !.i = 0]
      [] sc.line = 144 -> EnterLoops(sc)
      [] sc.line = 172 -> [sc EXCEPT !.line = 180]
      [] sc.line = 173 -> [sc EXCEPT !.line = 180]

\* the body of the function called runs: it returns or raises
RunBody ==
    /\ call # None
    /\ result = None
    /\ \E r \in Outcomes(Val(call)) :
          /\ result' = Some(r)
          /\ script' = IF r.kind = "value" THEN Returns(script)
                       ELSE Raises(script)
    /\ UNCHANGED <<input, output, call>>

NextSbox ==
    \/ Stmt65
    \/ Stmt94
    \/ Stmt128
    \/ Stmt130
    \/ Stmt134
    \/ Stmt144
    \/ Stmt172
    \/ Stmt173
    \/ RunBody

SpecSbox == InitSbox /\ [][NextSbox]_vars

(***************************************************************************)
(* Properties of the form and of relative_age_adjustment_linear            *)
(***************************************************************************)
AllPresent == \A f \in Required : input[f] # None

DatesPresent ==
    input.test_date # None /\ input.child_bday # None /\ input.oldest_bday # None

\* the arguments of the call the form makes (when all are present)
test_date == Val(input.test_date)

child_bday == Val(input.child_bday)

oldest_in_cohort == Val(input.oldest_bday)

child_test_score == Val(input.child_score)

max_test_score == Val(input.max_score)

\* the call returned, and the text shows what it returned
Scored == output.adjusted_score_val.kind = "score"

adjusted_score == Val(output.adjusted_score_val.value)

\* round(raw * factor) of the call, before the cap
uncapped == uncapped_score(test_date, child_bday, oldest_in_cohort, child_test_score)

\* the valid inputs of the specification's data model
ValidInputs ==
    /\ AllPresent
    /\ test_date > child_bday
    /\ test_date > oldest_in_cohort
    /\ child_test_score >= 0
    /\ max_test_score > 0

\* C1: whenever relative_age_adjustment_linear returns a value, for any
\* dates and any scores, the value is at most max_test_score; so are the
\* text of adjusted_score_val and the bars of my_plot, which show it.
C1_NeverAboveMax ==
    /\ Scored => adjusted_score <= max_test_score
    /\ output.my_plot.kind = "plot" =>
          LET bars == Val(output.my_plot.value)
          IN  bars.adjustment + bars.original <= bars.ylim

\* a call whose rounded score was above the maximum and came back capped
C1_Witness ==
    /\ Scored
    /\ Q(uncapped) > max_test_score
    /\ adjusted_score = max_test_score

\* C2 as stated: with valid inputs and the child the oldest of the cohort
\* the function returns raw_score exactly when raw_score <= max_score, and
\* max_score when raw_score > max_score.
C2_Original ==
    (ValidInputs /\ child_bday = oldest_in_cohort) =>
        /\ Scored
        /\ adjusted_score =
              (IF child_test_score <= max_test_score THEN child_test_score
               ELSE max_test_score)

\* C2 amended: the same for a raw_score that is a whole number (the
\* function rounds a fractional raw_score).
C2_SameAgeWholeScore ==
    (ValidInputs /\ child_bday = oldest_in_cohort /\ IsWhole(child_test_score)) =>
        /\ Scored
        /\ adjusted_score =
              (IF child_test_score <= max_test_score THEN child_test_score
               ELSE max_test_score)

C2_Witness ==
    /\ ValidInputs
    /\ child_bday = oldest_in_cohort
    /\ child_test_score = Q(70)
    /\ max_test_score = Q(100)
    /\ Scored
    /\ adjusted_score = Q(70)

\* C3 as stated: with valid inputs and the oldest child born strictly
\* before the child, the score before the cap is at least raw_score.
C3_Original ==
    (ValidInputs /\ oldest_in_cohort < child_bday) => Q(uncapped) >= child_test_score

\* C3 amended: the same for a raw_score that is a whole number.
C3_InflatesWholeScore ==
    (ValidInputs /\ oldest_in_cohort < child_bday /\ IsWhole(child_test_score)) =>
        Q(uncapped) >= child_test_score

C3_Witness ==
    /\ ValidInputs
    /\ oldest_in_cohort < child_bday
    /\ IsWhole(child_test_score)
    /\ Scored
    /\ Q(uncapped) > child_test_score

\* C4: when the assessment date is the child's birth date, neither
\* age_comparison_val nor a call of relative_age_adjustment_linear gives a
\* number: with the dates present both end in ZeroDivisionError.
C4_ZeroAgeFails ==
    (input.test_date # None /\ input.test_date = input.child_bday) =>
        /\ output.age_comparison_val.kind # "percent"
        /\ output.age_comparison_val.value = None
        /\ input.oldest_bday # None =>
              output.age_comparison_val.kind = "ZeroDivisionError"
        /\ ~Scored
        /\ output.adjusted_score_val.value = None
        /\ output.my_plot.kind # "plot"
        /\ AllPresent =>
              /\ output.adjusted_score_val.kind = "ZeroDivisionError"
              /\ output.my_plot.kind = "ZeroDivisionError"

C4_Witness ==
    /\ AllPresent
    /\ test_date = child_bday
    /\ output.age_comparison_val.kind = "ZeroDivisionError"
    /\ output.adjusted_score_val.kind = "ZeroDivisionError"
    /\ output.adjusted_score_val.calls = 1

\* C5: when the assessment date is not strictly after the child's birth
\* date or not strictly after the oldest child's, no renderer shows a
\* number computed from those dates.
C5_InvalidDatesRejected ==
    (DatesPresent /\ ~(test_date > child_bday /\ test_date > oldest_in_cohort)) =>
        /\ ~Scored
        /\ output.my_plot.kind # "plot"
        /\ output.age_comparison_val.kind # "percent"

\* C6: when one of the five required inputs is absent, whatever the name,
\* no renderer does date arithmetic or calls the function;
\* adjusted_score_val returns the prompt and my_plot returns nothing.
C6_GuardedWhenIncomplete ==
    (~AllPresent) =>
        /\ \A r \in DOMAIN output : ~output[r].arith /\ output[r].calls = 0
        /\ output.adjusted_score_val.kind = "prompt"
        /\ output.my_plot.kind = "nothing"

\* C7: with scores as the form admits them (both >= 0) and any dates, a
\* returned score is a whole number within 0..max_test_score.
C7_WithinValidRange ==
    (Scored /\ child_test_score >= 0 /\ max_test_score >= 0) =>
        /\ IsWhole(adjusted_score)
        /\ 0 <= adjusted_score
        /\ adjusted_score <= max_test_score

ScenarioDates ==
    /\ AllPresent
    /\ test_date = fromisoformat(2024, 1, 15)
    /\ child_bday = fromisoformat(2021, 7, 18)
    /\ oldest_in_cohort = fromisoformat(2020, 9, 1)
    /\ max_test_score = Q(100)

\* C8 as stated: in the scenario the ages are 1232 and 911 days; a raw
\* score of 70 gives 95 (no cap), a raw score of 90 gives 122, capped to
\* 100.
C8_Original ==
    ScenarioDates =>
        /\ days(test_date, oldest_in_cohort) = 1232
        /\ days(test_date, child_bday) = 911
        /\ child_test_score = Q(70) =>
              uncapped = 95 /\ Scored /\ adjusted_score = Q(95)
        /\ child_test_score = Q(90) =>
              uncapped = 122 /\ Scored /\ adjusted_score = Q(100)

\* C8 amended: the same with the oldest child 1231 days old.
C8_Scenario ==
    ScenarioDates =>
        /\ days(test_date, oldest_in_cohort) = 1231
        /\ days(test_date, child_bday) = 911
        /\ child_test_score = Q(70) =>
              uncapped = 95 /\ Scored /\ adjusted_score = Q(95)
        /\ child_test_score = Q(90) =>
              uncapped = 122 /\ Scored /\ adjusted_score = Q(100)

C8_Witness ==
    /\ ScenarioDates
    /\ child_test_score = Q(90)
    /\ Scored
    /\ adjusted_score = Q(100)

(***************************************************************************)
(* Properties of relative_age_adjustment_exp                               *)
(***************************************************************************)
ExpReturned == result # None /\ Val(result).kind = "value"

\* C10: a call of relative_age_adjustment_exp that returns, with
\* max_test_score > 0, child_test_score >= 0, a > 0 and the test date
\* strictly after both birth dates, returns at most max_test_score.
C10_NeverAboveMax ==
    (/\ ExpReturned
     /\ Val(call).max_test_score > 0
     /\ Val(call).child_test_score >= 0
     /\ Val(call).a > 0
     /\ Val(call).test_date > Val(call).child_bday
     /\ Val(call).test_date > Val(call).oldest_in_cohort) =>
        Val(Val(result).value) <= Val(call).max_test_score

ExpCalled == result # None

child_age_days == days(Val(call).test_date, Val(call).child_bday)

oldest_age_days == days(Val(call).test_date, Val(call).oldest_in_cohort)

Nearest(num, den) ==
    LET n  == num * Sgn(den)
        d  == Abs(den)
        fl == (n - (n % d)) \div d
    IN  {r \in {fl, fl + 1} : 2 * Abs(r * d - n) <= d}

\* num / den rounded to the nearest integer, a tie to the even one
RoundHalfEven(num, den) ==
    CHOOSE r \in Nearest(num, den) :
        Cardinality(Nearest(num, den)) = 1 \/ r % 2 = 0

\* the ages on the day of the test, of the call the form makes
form_child_age_days == days(test_date, child_bday)

form_oldest_age_days == days(test_date, oldest_in_cohort)

\* min(r, max_test_score), with the scores in quarters
CappedAt(r, max) == IF Q(r) > max THEN max ELSE Q(r)

WellBound(c) ==
    /\ c.bound # None
    /\ \A w \in {"test_date", "child_bday", "oldest_in_cohort"} :
          Val(c.bound)[w].type = "date"
    /\ \A w \in {"child_test_score", "max_test_score"} :
          Val(c.bound)[w].type = "number"

\* C13: every call of relative_age_adjustment_linear and of
\* relative_age_adjustment_exp that the script makes binds a date to
\* test_date, child_bday and oldest_in_cohort and a number to
\* child_test_score and max_test_score, and returns a score.
C13_EveryCallReturns ==
    call # None =>
        /\ WellBound(Val(call))
        /\ result # None => Val(result).kind = "value"

====
